---- MODULE Spec2Model ----
(***************************************************************************)
(* SlotArena<T> (src/src/lib.rs): a Vec of slots `raw` plus a Vec of free  *)
(* handles `free`.  A handle Ref<T> is a u32 index.  The u32 is modelled   *)
(* with W bits, so u32::MAX is 2^W - 1.                                    *)
(***************************************************************************)
EXTENDS Integers, Sequences, FiniteSets, TLC

\* ---------------------------------------------------------------- bounds
\* width of the handle integer (u32 in the source)
W == 2
\* raw never grows beyond MaxRaw slots in the model
MaxRaw == 5
\* the free list never grows beyond MaxFree entries in the model
MaxFree == 2

U32_MAX == 2^W - 1
Handles == 0..U32_MAX
\* the element type T, instantiated with bool
Values == BOOLEAN
\* usize is as wide as u32 (32-bit targets) or twice as wide (64-bit targets)
UsizeBits == {W, 2 * W}

VARIABLES
    raw,          \* SlotArena.raw : Vec<T>, slot i is raw[i+1]
    free,         \* SlotArena.free : Vec<Ref<T>>
    usize_bits,   \* the width of usize of the build
    last,         \* the last call of free, insert or try_insert and its outcome
    written,      \* written[h]: Some(v) for the value of the last insert that returned h
    lifo          \* progress of the run free(h1), free(h2), insert, insert

vars == <<raw, free, usize_bits, last, written, lifo>>

\* Option<X>: None is <<>>, Some(x) is <<x>>
None == <<>>
Some(x) == <<x>>

\* ---------------------------------------------------------------- Ref<T>
from_raw(n) == n
to_raw(r) == r

\* `x as u32` of a usize
AsU32(n) == n % (2^W)

\* usize::MAX of the build
USIZE_MAX == 2^usize_bits - 1

\* ---------------------------------------------------------------- Vec
\* Vec::contains
Contains(s, x) == \E i \in 1..Len(s) : s[i] = x

\* Vec::pop on a non-empty Vec: the item returned and the Vec left
popFirst(s) == [item |-> s[1], rest |-> SubSeq(s, 2, Len(s))]
popRemovesFirst(s) == [item |-> s[Len(s)], rest |-> Tail(s)]

pop(s) == [item |-> s[Len(s)], rest |-> SubSeq(s, 1, Len(s) - 1)]

\* the index expression raw[i] panics unless i < raw.len()
IndexOk(i) == i < Len(raw)

\* the outcome of a call: what it returned, whether it panicked, and for an
\* insert the index of the slot it wrote
Call(op, arg, ret, panicked, slot) ==
    [op |-> op, arg |-> arg, ret |-> ret, panicked |-> panicked, slot |-> slot]

\* ---------------------------------------------------------------- is_valid
is_validNoBounds(value) == ~Contains(free, value)
is_valid(value) == ~Contains(free, value) /\ to_raw(value) < Len(raw)

\* ---------------------------------------------------------------- iter
\* raw.iter().enumerate().map(..).filter(..) from position idx on
RECURSIVE IterFrom(_)
IterFrom(idx) ==
    IF idx >= Len(raw) THEN <<>>
    ELSE LET h == from_raw(AsU32(idx))
             rest == IterFrom(idx + 1)
         IN  IF ~Contains(free, h) THEN <<(<<h, raw[idx + 1]>>)>> \o rest ELSE rest

iter == IterFrom(0)
iter_mut == IterFrom(0)

\* ---------------------------------------------------------------- PartialEq, iter of an arena value
\* derive(PartialEq): the fields are compared in turn
arena_eqRawOnly(a, b) == a.raw = b.raw
arena_eq(a, b) == a.raw = b.raw /\ a.free = b.free

\* iter of the arena value a from position idx on
RECURSIVE IterOf(_, _)
IterOf(a, idx) ==
    IF idx >= Len(a.raw) THEN <<>>
    ELSE LET h == from_raw(AsU32(idx))
             rest == IterOf(a, idx + 1)
         IN  IF ~Contains(a.free, h) THEN <<(<<h, a.raw[idx + 1]>>)>> \o rest ELSE rest

\* ---------------------------------------------------------------- try_get / get
try_get(value) ==
    IF is_valid(value)
    THEN IF IndexOk(to_raw(value))
         THEN Call("try_get", Some(value), Some(raw[to_raw(value) + 1]), FALSE, None)
         ELSE Call("try_get", Some(value), None, TRUE, None)
    ELSE Call("try_get", Some(value), None, FALSE, None)

try_get_mut(value) ==
    IF is_valid(value)
    THEN IF IndexOk(to_raw(value))
         THEN Call("try_get_mut", Some(value), Some(raw[to_raw(value) + 1]), FALSE, None)
         ELSE Call("try_get_mut", Some(value), None, TRUE, None)
    ELSE Call("try_get_mut", Some(value), None, FALSE, None)

getNoAssert(value, debug_assertions) ==
    IF IndexOk(to_raw(value))
    THEN Call("get", Some(value), Some(raw[to_raw(value) + 1]), FALSE, None)
    ELSE Call("get", Some(value), None, TRUE, None)

\* debug_assertions: whether the build keeps debug_assert!
get(value, debug_assertions) ==
    IF debug_assertions /\ ~is_valid(value)
    THEN Call("get", Some(value), None, TRUE, None)
    ELSE IF IndexOk(to_raw(value))
         THEN Call("get", Some(value), Some(raw[to_raw(value) + 1]), FALSE, None)
         ELSE Call("get", Some(value), None, TRUE, None)

get_mut(value, debug_assertions) ==
    IF debug_assertions /\ ~is_valid(value)
    THEN Call("get_mut", Some(value), None, TRUE, None)
    ELSE IF IndexOk(to_raw(value))
         THEN Call("get_mut", Some(value), Some(raw[to_raw(value) + 1]), FALSE, None)
         ELSE Call("get_mut", Some(value), None, TRUE, None)

\* ---------------------------------------------------------------- Init
Init ==
    /\ raw = <<>>
    /\ free = <<>>
    /\ usize_bits \in UsizeBits
    /\ last = Call("new", None, None, FALSE, None)
    /\ written = [h \in Handles |-> None]
    /\ lifo = <<>>

\* ---------------------------------------------------------------- the runs of C4 and C15
\* lifo is <<h1>> after free(h1) on an arena with an empty free list and h1
\* valid, <<h1, h2>> after a free(h2) that follows it directly, h2 being
\* another valid handle or h1 again, and then collects the handles the next
\* two inserts return.  After a double free (h2 = h1) and the first of these
\* inserts it is kept when free is called again before the second.
LifoFree(value) ==
    IF Len(lifo) = 3 /\ lifo[1] = lifo[2] THEN lifo
    ELSE IF Len(lifo) = 1 /\ (is_valid(value) \/ value = lifo[1]) THEN Append(lifo, value)
    ELSE IF free = <<>> /\ is_valid(value) THEN <<value>>
    ELSE <<>>

LifoInsert(op, ret) ==
    IF op = "insert" /\ Len(lifo) \in {2, 3} /\ ret # None
    THEN Append(lifo, ret[1])
    ELSE <<>>

\* ---------------------------------------------------------------- free
FreePopsRaw(value) ==
    /\ Len(free) < MaxFree
    /\ free' = Append(free, value)
    /\ raw' = IF to_raw(value) + 1 = Len(raw) THEN SubSeq(raw, 1, Len(raw) - 1) ELSE raw
    /\ last' = Call("free", Some(value), None, FALSE, None)
    /\ lifo' = LifoFree(value)
    /\ UNCHANGED <<usize_bits, written>>

FreePushFront(value) ==
    /\ Len(free) < MaxFree
    /\ free' = <<value>> \o free
    /\ raw' = raw
    /\ last' = Call("free", Some(value), None, FALSE, None)
    /\ lifo' = LifoFree(value)
    /\ UNCHANGED <<usize_bits, written>>

FreeNoPush(value) ==
    /\ Len(free) < MaxFree
    /\ free' = free
    /\ raw' = raw
    /\ last' = Call("free", Some(value), None, FALSE, None)
    /\ lifo' = LifoFree(value)
    /\ UNCHANGED <<usize_bits, written>>

FreeRejectsDouble(value) ==
    /\ Len(free) < MaxFree
    /\ free' = IF Contains(free, value) THEN free ELSE Append(free, value)
    /\ raw' = raw
    /\ last' = Call("free", Some(value), None, FALSE, None)
    /\ lifo' = LifoFree(value)
    /\ UNCHANGED <<usize_bits, written>>

Free(value) ==
    /\ Len(free) < MaxFree
    /\ free' = Append(free, value)
    /\ raw' = raw
    /\ last' = Call("free", Some(value), None, FALSE, None)
    /\ lifo' = LifoFree(value)
    /\ UNCHANGED <<usize_bits, written>>

\* ---------------------------------------------------------------- insert
\* the outcome of insert or try_insert
Returned(op, value, idx, slot) ==
    /\ last' = Call(op, Some(value), Some(idx), FALSE, Some(slot))
    /\ written' = [written EXCEPT ![idx] = Some(value)]
    /\ lifo' = LifoInsert(op, Some(idx))

Panicked(op, value) ==
    /\ last' = Call(op, Some(value), None, TRUE, None)
    /\ written' = written
    /\ lifo' = LifoInsert(op, None)

ReuseKeepsValue(op, value) ==
    LET idx == pop(free).item IN
    /\ free' = pop(free).rest
    /\ IF IndexOk(to_raw(idx))
       THEN /\ raw' = raw
            /\ Returned(op, value, idx, to_raw(idx))
       ELSE /\ raw' = raw
            /\ Panicked(op, value)

\* the Some(idx) arm of insert and try_insert: free.pop() has already happened
\* when raw[idx] = value is evaluated
Reuse(op, value) ==
    LET idx == pop(free).item IN
    /\ free' = pop(free).rest
    /\ IF IndexOk(to_raw(idx))
       THEN /\ raw' = [raw EXCEPT ![to_raw(idx) + 1] = value]
            /\ Returned(op, value, idx, to_raw(idx))
       ELSE /\ raw' = raw
            /\ Panicked(op, value)

GrowIdxAfterPush(op, value) ==
    LET idx == from_raw(AsU32(Len(raw) + 1)) IN
    /\ free' = free
    /\ IF Len(raw) = USIZE_MAX
       THEN /\ raw' = raw
            /\ Panicked(op, value)
       ELSE /\ Len(raw) < MaxRaw
            /\ raw' = Append(raw, value)
            /\ Returned(op, value, idx, Len(raw))

\* the None arm: Ref::from_raw(raw.len() as u32), then raw.push(value), which
\* panics with a capacity overflow at usize::MAX elements
Grow(op, value) ==
    LET idx == from_raw(AsU32(Len(raw))) IN
    /\ free' = free
    /\ IF Len(raw) = USIZE_MAX
       THEN /\ raw' = raw
            /\ Panicked(op, value)
       ELSE /\ Len(raw) < MaxRaw
            /\ raw' = Append(raw, value)
            /\ Returned(op, value, idx, Len(raw))

\* the match of insert on free.pop()
InsertBody(op, value) ==
    IF free # <<>> THEN Reuse(op, value) ELSE Grow(op, value)

Insert(value) ==
    /\ InsertBody("insert", value)
    /\ UNCHANGED usize_bits

TryInsertFullEarly(value) ==
    /\ IF free # <<>>
       THEN Reuse("try_insert", value)
       ELSE IF Len(raw) + 1 >= U32_MAX
            THEN /\ last' = Call("try_insert", Some(value), None, FALSE, None)
                 /\ lifo' = LifoInsert("try_insert", None)
                 /\ UNCHANGED <<raw, free, written>>
            ELSE Grow("try_insert", value)
    /\ UNCHANGED usize_bits

TryInsertNoFullCheck(value) ==
    /\ IF free # <<>> THEN Reuse("try_insert", value) ELSE Grow("try_insert", value)
    /\ UNCHANGED usize_bits

TryInsertFullFirst(value) ==
    /\ IF Len(raw) = U32_MAX
       THEN /\ last' = Call("try_insert", Some(value), None, FALSE, None)
            /\ lifo' = LifoInsert("try_insert", None)
            /\ UNCHANGED <<raw, free, written>>
       ELSE IF free # <<>>
            THEN Reuse("try_insert", value)
            ELSE Grow("try_insert", value)
    /\ UNCHANGED usize_bits

TryInsert(value) ==
    /\ IF free # <<>>
       THEN Reuse("try_insert", value)
       ELSE IF Len(raw) = U32_MAX
            THEN /\ last' = Call("try_insert", Some(value), None, FALSE, None)
                 /\ lifo' = LifoInsert("try_insert", None)
                 /\ UNCHANGED <<raw, free, written>>
            ELSE Grow("try_insert", value)
    /\ UNCHANGED usize_bits

\* ---------------------------------------------------------------- accessors
\* The accessors return to the caller and leave the arena as it is.
IsValid(value) ==
    /\ is_valid(value) \in BOOLEAN
    /\ UNCHANGED vars

Get(value, debug_assertions) ==
    /\ get(value, debug_assertions).op = "get"
    /\ UNCHANGED vars

TryGet(value) ==
    /\ try_get(value).op = "try_get"
    /\ UNCHANGED vars

GetMut(value, debug_assertions) ==
    /\ get_mut(value, debug_assertions).op = "get_mut"
    /\ UNCHANGED vars

TryGetMut(value) ==
    /\ try_get_mut(value).op = "try_get_mut"
    /\ UNCHANGED vars

Iter ==
    /\ Len(iter) <= Len(raw)
    /\ UNCHANGED vars

IterMut ==
    /\ Len(iter_mut) <= Len(raw)
    /\ UNCHANGED vars

\* ---------------------------------------------------------------- Next
Next ==
    \/ \E v \in Values : Insert(v)
    \/ \E v \in Values : TryInsert(v)
    \/ \E h \in Handles : Free(h)
    \/ \E h \in Handles : IsValid(h)
    \/ \E h \in Handles, d \in BOOLEAN : Get(h, d)
    \/ \E h \in Handles : TryGet(h)
    \/ \E h \in Handles, d \in BOOLEAN : GetMut(h, d)
    \/ \E h \in Handles : TryGetMut(h)
    \/ Iter
    \/ IterMut

Spec == Init /\ [][Next]_vars

\* ---------------------------------------------------------------- correct usage
\* the caller frees only handles that are valid
FreeValid(value) ==
    /\ is_valid(value)
    /\ Free(value)

NextCorrectUsage ==
    \/ \E v \in Values : Insert(v)
    \/ \E v \in Values : TryInsert(v)
    \/ \E h \in Handles : FreeValid(h)
    \/ \E h \in Handles : IsValid(h)
    \/ \E h \in Handles, d \in BOOLEAN : Get(h, d)
    \/ \E h \in Handles : TryGet(h)
    \/ \E h \in Handles, d \in BOOLEAN : GetMut(h, d)
    \/ \E h \in Handles : TryGetMut(h)
    \/ Iter
    \/ IterMut

SpecCorrectUsage == Init /\ [][NextCorrectUsage]_vars

\* ================================================================ claims
\* A step that changes no variable is a call of an accessor or a repeated
\* call that ends as the one before it; [A]_vars holds of such a step whatever
\* A says, and the step formulas below say so first (UNCHANGED vars \/ ...).
\* the call that made the step, read in the state after it
Inserted == last.op = "insert" /\ ~last.panicked /\ last.ret # None
OutOfBoundsOnTop == free # <<>> /\ to_raw(free[Len(free)]) >= Len(raw)
NoDuplicateFree == \A i, j \in 1..Len(free) : free[i] = free[j] => i = j
ValidatedUntilFreed ==
    \/ UNCHANGED <<raw, free>>
    \/ \A h \in Handles :
          (is_valid(h) /\ ~is_valid(h)') => (last'.op = "free" /\ last'.arg = Some(h))

\* C1 as stated: whatever was freed and however often, the handle an insert
\* returns is valid right after the insert and stays valid until free(h).
C1_Original ==
    [][ /\ \A h \in Handles : (Inserted' /\ last'.ret = Some(h)) => is_valid(h)'
        /\ ValidatedUntilFreed ]_vars

\* C1 amended: the handle h an insert returns is valid right after the insert
\* provided the free list held no handle twice (h was not freed while already
\* free), and a valid handle stays valid until the next free(h).
C1_ValidAfterInsert ==
    [][ UNCHANGED vars \/
        /\ \A h \in Handles :
              (Inserted' /\ last'.ret = Some(h) /\ NoDuplicateFree) => is_valid(h)'
        /\ ValidatedUntilFreed ]_vars

\* an insert has reused a freed slot, other freed slots are left, and the
\* handle it returned is valid
C1_Witness ==
    /\ Inserted
    /\ free # <<>>
    /\ NoDuplicateFree
    /\ ~Contains(free, last.ret[1])
    /\ is_valid(last.ret[1])

\* C2: after free(h), is_valid(h) is false, and a handle that is not valid
\* becomes valid only by an insert or try_insert that returns it.
C2_FreedStaysInvalid ==
    [][ UNCHANGED vars \/
        /\ \A h \in Handles :
              (last'.op = "free" /\ last'.arg = Some(h)) => ~is_valid(h)'
        /\ \/ UNCHANGED <<raw, free>>
           \/ \A h \in Handles :
                 (~is_valid(h) /\ is_valid(h)') =>
                     (last'.op \in {"insert", "try_insert"} /\ last'.ret = Some(h)) ]_vars

\* a handle inside raw has been freed and is not valid
C2_Witness ==
    /\ last.op = "free"
    /\ to_raw(last.arg[1]) < Len(raw)
    /\ ~is_valid(last.arg[1])

\* C3 as stated: insert with a non-empty free list removes the last-pushed
\* entry h, writes v to slot h, returns h and keeps raw.len(); with an empty
\* free list it appends v and returns the handle of the old raw.len().
C3_Original ==
    [][ last'.op = "insert" =>
          IF free # <<>>
          THEN /\ ~last'.panicked
               /\ last'.ret = Some(free[Len(free)])
               /\ free' = SubSeq(free, 1, Len(free) - 1)
               /\ to_raw(free[Len(free)]) < Len(raw)
               /\ raw' = [raw EXCEPT ![to_raw(free[Len(free)]) + 1] = last'.arg[1]]
          ELSE /\ ~last'.panicked
               /\ last'.ret = Some(Len(raw))
               /\ free' = free
               /\ raw' = Append(raw, last'.arg[1]) ]_vars

\* C3 amended: insert with a non-empty free list removes the last-pushed
\* entry h; if h is inside raw it writes v to slot h, returns h and keeps
\* raw.len(), and otherwise it panics with raw as it was.  With an empty free
\* list and fewer than u32::MAX slots it appends v and returns the handle of
\* the old raw.len().  raw grows only when the free list is empty.
C3_InsertReusesOrAppends ==
    [][ last'.op = "insert" =>
          /\ free # <<>> =>
               /\ free' = SubSeq(free, 1, Len(free) - 1)
               /\ IF to_raw(free[Len(free)]) < Len(raw)
                  THEN /\ ~last'.panicked
                       /\ last'.ret = Some(free[Len(free)])
                       /\ raw' = [raw EXCEPT ![to_raw(free[Len(free)]) + 1] = last'.arg[1]]
                  ELSE /\ last'.panicked
                       /\ raw' = raw
          /\ (free = <<>> /\ Len(raw) < U32_MAX) =>
               /\ ~last'.panicked
               /\ last'.ret = Some(Len(raw))
               /\ free' = free
               /\ raw' = Append(raw, last'.arg[1])
          /\ Len(raw') > Len(raw) => free = <<>> ]_vars

\* an insert has written a slot that is not the last one: it reused it
C3_Witness ==
    /\ Inserted
    /\ last.slot[1] + 1 < Len(raw)
    /\ free = <<>>
    /\ raw[last.slot[1] + 1] = last.arg[1]

\* C4 as stated: after free(h1), free(h2) the first insert returns h1 and the
\* second returns h2.
C4_Original ==
    (Len(lifo) = 4 /\ lifo[1] # lifo[2]) => (lifo[3] = lifo[1] /\ lifo[4] = lifo[2])

\* C4 amended: starting with an empty free list and two valid handles h1 and
\* h2, after free(h1), free(h2) the first insert returns h2 and the second
\* returns h1.
C4_LastFreedFirstReused ==
    (Len(lifo) = 4 /\ lifo[1] # lifo[2]) => (lifo[3] = lifo[2] /\ lifo[4] = lifo[1])

\* free(h1), free(h2), insert, insert has run
C4_Witness == Len(lifo) = 4 /\ lifo[1] # lifo[2]

\* the handles a sequence of (handle, value) pairs names, in its order
Firsts(pairs) == [i \in 1..Len(pairs) |-> pairs[i][1]]

\* C5: iter yields one pair for each valid handle and no other, in strictly
\* increasing index order, with the value of the last insert that returned
\* the handle; iter_mut yields the same handles in the same order.
C5_Original ==
    /\ \A h \in Handles : is_valid(h) <=> (\E i \in 1..Len(iter) : iter[i][1] = h)
    /\ \A i, j \in 1..Len(iter) : i < j => to_raw(iter[i][1]) < to_raw(iter[j][1])
    /\ \A i \in 1..Len(iter) : written[iter[i][1]] = Some(iter[i][2])
    /\ Firsts(iter_mut) = Firsts(iter)

\* how a call of try_insert ended
ReturnedNone(call) == ~call.panicked /\ call.ret = None
ReturnedSome(call) == ~call.panicked /\ call.ret # None
Full == free = <<>> /\ Len(raw) = U32_MAX

\* C6 as stated: whatever was freed, try_insert never panics, returns None
\* only when the free list is empty and raw holds u32::MAX slots, and
\* returns Some(handle) in every other state.
C6_Original ==
    [][ last'.op = "try_insert" =>
          /\ ~last'.panicked
          /\ ReturnedNone(last') => Full
          /\ ~Full => ReturnedSome(last') ]_vars

\* C6 amended: try_insert panics only when the entry it pops from the free
\* list is outside raw (free was called with a handle of index >= raw.len());
\* when it does not panic it returns None only when the free list is empty
\* and raw holds u32::MAX slots, and Some(handle) in every other state.
C6_TryInsertNoneOnlyWhenFull ==
    [][ last'.op = "try_insert" =>
          /\ last'.panicked <=> OutOfBoundsOnTop
          /\ ReturnedNone(last') => Full
          /\ (~Full /\ ~OutOfBoundsOnTop) => ReturnedSome(last') ]_vars

\* try_insert has returned None on a full arena
C6_Witness ==
    /\ last.op = "try_insert"
    /\ ReturnedNone(last)
    /\ Full

\* C7: insert panics, returns no handle and adds no slot when the free list
\* is empty and raw holds u32::MAX slots; raw never holds more than u32::MAX
\* slots, and insert returns the handle of the slot it wrote.
C7_Original ==
    [][ /\ (last'.op = "insert" /\ Full) =>
              (last'.panicked /\ last'.ret = None /\ raw' = raw)
        /\ Len(raw') <= U32_MAX
        /\ Inserted' => last'.slot = Some(to_raw(last'.ret[1])) ]_vars

\* C8: try_get and try_get_mut return None exactly when the handle is out of
\* bounds or in the free list, otherwise the value stored at its index, and
\* never index outside raw.
C8_TryGetChecked ==
    \A h \in Handles :
        \A call \in {try_get(h), try_get_mut(h)} :
            /\ ~call.panicked
            /\ call.ret = None <=> (to_raw(h) >= Len(raw) \/ Contains(free, h))
            /\ call.ret # None => (to_raw(h) < Len(raw) /\ call.ret = Some(raw[to_raw(h) + 1]))

\* try_get answers Some for one handle, None for a freed handle inside raw
\* and None for a handle outside raw
C8_Witness ==
    /\ \E h \in Handles : try_get(h).ret # None /\ try_get_mut(h).ret # None
    /\ \E h \in Handles : to_raw(h) < Len(raw) /\ Contains(free, h) /\ try_get(h).ret = None
    /\ \E h \in Handles : to_raw(h) >= Len(raw) /\ try_get(h).ret = None

AllFreeInBounds == \A i \in 1..Len(free) : to_raw(free[i]) < Len(raw)

\* C9 as stated: every entry of the free list has an index < raw.len().
C9_Original == AllFreeInBounds

\* C9 amended: every entry of the free list has an index < raw.len() as long
\* as free was only called with handles of index < raw.len(); free itself
\* accepts any handle, and no other operation breaks the invariant.
C9_FreeInBoundsUnlessFreedOutOfBounds ==
    [][ AllFreeInBounds =>
          \/ AllFreeInBounds'
          \/ (last'.op = "free" /\ to_raw(last'.arg[1]) >= Len(raw)) ]_vars

\* two handles inside raw have been freed
C9_Witness ==
    /\ last.op = "free"
    /\ Len(free) = 2
    /\ AllFreeInBounds

\* C10: raw.len() never decreases, and free leaves it as it is.
C10_RawNeverShrinks ==
    [][ /\ Len(raw') >= Len(raw)
        /\ last'.op = "free" => Len(raw') = Len(raw) ]_vars

\* the handle of the last slot has been freed and the slot is still there
C10_Witness ==
    /\ last.op = "free"
    /\ Len(raw) > 0
    /\ to_raw(last.arg[1]) + 1 = Len(raw)

\* C11 ------------------------------------------------------------
\* the arena as a value, and the arenas it is compared with: the arena itself
\* and arenas that differ from it in one slot, in the order of the free list
\* or in the last entry of the free list
this == [raw |-> raw, free |-> free]
Reverse(s) == [i \in 1..Len(s) |-> s[Len(s) + 1 - i]]
OtherArenas ==
    { [raw |-> r, free |-> f] :
        r \in {raw} \cup { [raw EXCEPT ![i] = v] : i \in 1..Len(raw), v \in Values },
        f \in {free, Reverse(free), SubSeq(free, 1, Len(free) - 1)} }

\* C11 as stated: two arenas compare equal if and only if their iter()
\* sequences are equal, whatever the freed slots hold and whatever the order
\* of the free list.
C11_Original ==
    \A b \in OtherArenas : arena_eq(this, b) <=> (IterOf(this, 0) = IterOf(b, 0))

\* C11 amended: two arenas compare equal if and only if their raw storage
\* (freed slots included) and their free lists (order included) are equal;
\* equal arenas have equal iter() sequences, but arenas with equal iter()
\* sequences compare unequal when a freed slot or the free list differs.
C11_EqualArenasIterEqual ==
    /\ IterOf(this, 0) = iter
    /\ \A b \in OtherArenas :
          /\ arena_eq(this, b) => (IterOf(this, 0) = IterOf(b, 0))
          /\ (b.raw # raw \/ b.free # free) => ~arena_eq(this, b)
          /\ arena_eq(this, this)

\* an arena with a live and a freed slot is compared with one that differs
\* only in the freed slot: iter() is the same and the arenas are unequal
C11_Witness ==
    /\ iter # <<>>
    /\ \E b \in OtherArenas :
          /\ b.free = free
          /\ b.raw # raw
          /\ IterOf(b, 0) = iter
          /\ ~arena_eq(this, b)

\* C12 ------------------------------------------------------------
NotFull == free # <<>> \/ Len(raw) < U32_MAX

\* C12 as stated: from a state that is not full, try_insert(v) returns
\* Some(h) for the handle h insert(v) returns from that state, and leaves raw
\* and the free list as insert(v) leaves them.
C12_Original ==
    [][ \A v \in Values :
          (last'.op = "try_insert" /\ last'.arg = Some(v) /\ NotFull) =>
              /\ ReturnedSome(last')
              /\ InsertBody("try_insert", v) ]_vars

\* C12 amended: from a state that is not full, try_insert(v) ends as
\* insert(v) ends from that state: it returns Some(h) for the handle h insert
\* returns and leaves raw and the free list as insert leaves them, and it
\* panics as insert does when the entry popped from the free list is outside
\* raw.
C12_TryInsertAsInsert ==
    [][ \A v \in Values :
          (last'.op = "try_insert" /\ last'.arg = Some(v) /\ NotFull) =>
              /\ ReturnedSome(last') <=> ~OutOfBoundsOnTop
              /\ InsertBody("try_insert", v) ]_vars

\* try_insert has returned the handle of a new last slot
C12_Witness ==
    /\ last.op = "try_insert"
    /\ ReturnedSome(last)
    /\ last.slot[1] + 1 = Len(raw)
    /\ to_raw(last.ret[1]) = last.slot[1]

\* C13 ------------------------------------------------------------
\* C13: free(h) leaves raw as it is and appends h at the end of the free
\* list; a slot's value changes only by an insert or try_insert that returns
\* the handle of that slot, so the value of a freed slot stays in storage
\* (get in a build without debug assertions still reads it) until then.
C13_FreeKeepsStorage ==
    [][ UNCHANGED vars \/
        /\ \A h \in Handles :
              (last'.op = "free" /\ last'.arg = Some(h)) =>
                  /\ raw' = raw
                  /\ free' = Append(free, h)
                  /\ to_raw(h) < Len(raw) =>
                        get(h, FALSE)' = get(h, FALSE)
        /\ \A i \in 1..Len(raw) :
              raw'[i] # raw[i] =>
                  /\ last'.op \in {"insert", "try_insert"}
                  /\ last'.ret = Some(from_raw(i - 1)) ]_vars

\* a slot has been freed after another one and its value is still read
C13_Witness ==
    /\ last.op = "free"
    /\ Len(free) = 2
    /\ free[1] # free[2]
    /\ to_raw(last.arg[1]) < Len(raw)
    /\ get(last.arg[1], FALSE).ret = Some(raw[to_raw(last.arg[1]) + 1])

\* C14 ------------------------------------------------------------
\* C14: with debug assertions, get(h) and get_mut(h) panic exactly when h is
\* out of bounds or in the free list, and otherwise return the value stored
\* at the index of h.
C14_GetPanicsIffInvalid ==
    \A h \in Handles :
        \A call \in {get(h, TRUE), get_mut(h, TRUE)} :
            /\ call.panicked <=> (to_raw(h) >= Len(raw) \/ Contains(free, h))
            /\ ~call.panicked =>
                  (to_raw(h) < Len(raw) /\ call.ret = Some(raw[to_raw(h) + 1]))

\* get returns the value of a live slot and panics on a freed slot that a
\* build without debug assertions would still read
C14_Witness ==
    /\ \E h \in Handles : ~get(h, TRUE).panicked /\ ~get_mut(h, TRUE).panicked
    /\ \E h \in Handles :
          /\ Contains(free, h)
          /\ get(h, TRUE).panicked
          /\ ~get(h, FALSE).panicked

\* C15 ------------------------------------------------------------
\* h is the last and the last but one entry of the free list, as it is after
\* free(h), free(h)
TwiceOnTop(h) ==
    /\ Len(free) >= 2
    /\ free[Len(free)] = h
    /\ free[Len(free) - 1] = h

FreeCount(h) == Cardinality({i \in 1..Len(free) : free[i] = h})

\* an insert had returned h, h is in the free list, and the step is an
\* insert(v2) that returns h again.  A handle is its index and nothing else
\* (from_raw, to_raw), so the copy of h kept from the first insert and the
\* handle returned now are the same value h.
ReusedBy(h, v2) ==
    /\ last'.op = "insert"
    /\ last'.ret = Some(h)
    /\ last'.arg = Some(v2)
    /\ written[h] # None
    /\ Contains(free, h)

\* C16 as stated: after the insert that returns h again, is_valid(h) is true
\* and get and try_get with h return v2.
C16_Original ==
    [][ \A h \in Handles, v2 \in Values :
          ReusedBy(h, v2) =>
              /\ is_valid(h)'
              /\ try_get(h)'.ret = Some(v2)
              /\ \A d \in BOOLEAN : get(h, d)'.ret = Some(v2) ]_vars

\* C16: when an insert(v2) takes from the free list a handle h that an
\* earlier insert had returned and returns it again, slot h holds v2 and a
\* get without debug assertions returns v2 for h; if h had been freed once
\* (the free list held it once), is_valid(h) is true and try_get, get and
\* get_mut return v2; if it held h more than once, h is still in the free
\* list, is_valid(h) is false and try_get returns None.
C16_StaleHandleAccepted ==
    [][ UNCHANGED vars \/ \A h \in Handles, v2 \in Values :
          ReusedBy(h, v2) =>
              /\ free # <<>> /\ pop(free).item = h
              /\ raw'[to_raw(h) + 1] = v2
              /\ get(h, FALSE)'.ret = Some(v2)
              /\ FreeCount(h) = 1 =>
                    /\ is_valid(h)'
                    /\ try_get(h)'.ret = Some(v2)
                    /\ try_get_mut(h)'.ret = Some(v2)
                    /\ \A d \in BOOLEAN :
                          get(h, d)'.ret = Some(v2) /\ get_mut(h, d)'.ret = Some(v2)
              /\ FreeCount(h) > 1 =>
                    /\ ~is_valid(h)'
                    /\ try_get(h)'.ret = None
                    /\ get(h, TRUE)'.panicked ]_vars

\* after free(h1), free(h2) an insert has returned h2 again, and the handle
\* is valid and reads the value just inserted
C16_Witness ==
    /\ Len(lifo) = 3
    /\ lifo[3] = lifo[2]
    /\ last.op = "insert"
    /\ last.ret = Some(lifo[3])
    /\ written[lifo[3]] = last.arg
    /\ is_valid(lifo[3])
    /\ try_get(lifo[3]).ret = last.arg
    /\ get(lifo[3], TRUE).ret = last.arg

\* C17 ------------------------------------------------------------
\* C17 as stated, for the runs of SpecCorrectUsage: the free list never holds
\* a handle twice, and an insert or try_insert returns a handle that was not
\* valid before the call and changes the value of no valid handle.
C17_Original ==
    [][ /\ NoDuplicateFree'
        /\ \A h \in Handles :
              (last'.op \in {"insert", "try_insert"} /\ last'.ret = Some(h)) =>
                  /\ ~is_valid(h)
                  /\ \A g \in Handles :
                        is_valid(g) => raw'[to_raw(g) + 1] = raw[to_raw(g) + 1] ]_vars

\* the same with raw no longer than the handles can index, where it holds
C17_WithinU32 ==
    [][ /\ NoDuplicateFree'
        /\ \A h \in Handles :
              (/\ last'.op \in {"insert", "try_insert"}
               /\ last'.ret = Some(h)
               /\ Len(raw) <= U32_MAX) =>
                  /\ ~is_valid(h)
                  /\ \A g \in Handles :
                        is_valid(g) => raw'[to_raw(g) + 1] = raw[to_raw(g) + 1] ]_vars

C19_TryInsertNoneUnchanged ==
    [][ UNCHANGED vars \/
        /\ (last'.op = "try_insert" /\ ReturnedNone(last')) =>
              /\ raw' = raw
              /\ free' = free
              /\ \A h \in Handles : is_valid(h)' = is_valid(h)
              /\ iter' = iter
              /\ iter_mut' = iter_mut
        /\ \A h \in Handles, v \in Values :
              (/\ Len(raw) = U32_MAX
               /\ to_raw(h) < Len(raw)
               /\ free = <<h>>
               /\ last = Call("free", Some(h), None, FALSE, None)
               /\ last'.op = "try_insert"
               /\ last'.arg = Some(v)) =>
                  /\ last'.ret = Some(h)
                  /\ ~last'.panicked
                  /\ raw' = [raw EXCEPT ![to_raw(h) + 1] = v]
                  /\ free' = <<>> ]_vars

\* try_insert has returned None and every slot of the arena is live
C19_Witness ==
    /\ last.op = "try_insert"
    /\ last.ret = None
    /\ ~last.panicked
    /\ Len(iter) = U32_MAX
    /\ \A h \in Handles : is_valid(h) <=> to_raw(h) < U32_MAX

====
